---------------------------- MODULE Spec2Model ----------------------------
(* Model of pythainlp/util/wordtonum.py: thaiword_to_num, the conversion   *)
(* of a spelled-out Thai numeral into an integer.                          *)
(*                                                                         *)
(* A Python str is a sequence of Unicode code points.  A Python int is     *)
(* unbounded; it is held as a little-endian sequence of base-1,000,000     *)
(* limbs without leading zero limbs (<<>> is 0), so that values beyond     *)
(* 2^31 (ten-to-the-twelfth and more) are computed exactly.                *)
EXTENDS Integers, Sequences, FiniteSets, TLC

(***************************************************************************)
(* Vocabulary: the words of the source, as code point sequences.           *)
(***************************************************************************)
\* "ศูนย์" (zero), wordtonum.py line 95
ZeroWord == <<3624, 3641, 3609, 3618, 3660>>
\* "หนึ่ง" (one)
Nueng == <<3627, 3609, 3638, 3656, 3591>>
\* "เอ็ด" (one, alternate form)
Et == <<3648, 3629, 3655, 3604>>
\* "สอง" (two)
Song == <<3626, 3629, 3591>>
\* "ยี่" (two, alternate form)
Yi == <<3618, 3637, 3656>>
\* "สาม" (three)
Sam == <<3626, 3634, 3617>>
\* "สี่" (four)
Si == <<3626, 3637, 3656>>
\* "ห้า" (five)
Ha == <<3627, 3657, 3634>>
\* "หก" (six)
Hok == <<3627, 3585>>
\* "เจ็ด" (seven)
Chet == <<3648, 3592, 3655, 3604>>
\* "แปด" (eight)
Paet == <<3649, 3611, 3604>>
\* "เก้า" (nine)
Kao == <<3648, 3585, 3657, 3634>>
\* "สิบ" (ten)
Sip == <<3626, 3636, 3610>>
\* "ร้อย" (hundred)
Roi == <<3619, 3657, 3629, 3618>>
\* "พัน" (thousand)
Phan == <<3614, 3633, 3609>>
\* "หมื่น" (ten thousand)
Muen == <<3627, 3617, 3639, 3656, 3609>>
\* "แสน" (hundred thousand)
Saen == <<3649, 3626, 3609>>
\* "ล้าน" (million)
Lan == <<3621, 3657, 3634, 3609>>

\* _digits: the keys, and the value of a key.
DigitWords == {Nueng, Et, Song, Yi, Sam, Si, Ha, Hok, Chet, Paet, Kao}

_digits(w) ==
    CASE w = Nueng -> 1
      [] w = Et -> 1
      [] w = Song -> 2
      [] w = Yi -> 2
      [] w = Sam -> 3
      [] w = Si -> 4
      [] w = Ha -> 5
      [] w = Hok -> 6
      [] w = Chet -> 7
      [] w = Paet -> 8
      [] w = Kao -> 9

\* Mutant of _powers_of_10: the ten word given the value of the hundred word.
_powers_of_10_Typo(w) ==
    CASE w = Sip -> 100
      [] w = Roi -> 100
      [] w = Phan -> 1000
      [] w = Muen -> 10000
      [] w = Saen -> 100000

\* _powers_of_10: the keys, and the value of a key.
PowerWords == {Sip, Roi, Phan, Muen, Saen}

_powers_of_10(w) ==
    CASE w = Sip -> 10
      [] w = Roi -> 100
      [] w = Phan -> 1000
      [] w = Muen -> 10000
      [] w = Saen -> 100000

_valid_tokens == DigitWords \cup PowerWords \cup {Lan}

(***************************************************************************)
(* _re_thai_numerals.  A regular expression is evaluated as the set of     *)
(* positions a match can end at: P is a set of start positions (1-based    *)
(* index of the next character), the result the set of positions after a   *)
(* match of the sub-expression.  fullmatch backtracks over every           *)
(* alternative, so it succeeds exactly when the end of the string is among *)
(* the end positions of the whole expression.                              *)
(***************************************************************************)
StartsWith(s, p, w) ==
    /\ p + Len(w) - 1 <= Len(s)
    /\ \A k \in 1..Len(w) : s[p + k - 1] = w[k]

\* (w1|w2|...) at any position of P
ReAlt(s, P, ws) ==
    UNION { { p + Len(w) : w \in { v \in ws : StartsWith(s, p, v) } } : p \in P }

\* Mutant of DigitsBeforePlace: one digit list, alternates included, for
\* every slot.
DigitsAnyForm == {<<>>, Nueng, Et, Song, Yi, Sam, Si, Ha, Hok, Chet, Paet, Kao}

\* The digit alternatives of the slots; <<>> is the empty alternative.
DigitsBeforePlace == {<<>>, Nueng, Song, Sam, Si, Ha, Hok, Chet, Paet, Kao}
DigitsBeforeSip == {<<>>, Nueng, Yi, Sam, Si, Ha, Hok, Chet, Paet, Kao}
DigitsUnits == {<<>>, Nueng, Et, Song, Sam, Si, Ha, Hok, Chet, Paet, Kao}

\* ((|d1|d2|...)place)?
RePlace(s, P, ds, place) == P \cup ReAlt(s, ReAlt(s, P, ds), {place})

\* Mutant of ReGroup: the ten slot written before the hundred slot.
ReGroup_TenBeforeHundred(s, P) ==
    LET p5 == RePlace(s, P, DigitsBeforePlace, Saen)
        p4 == RePlace(s, p5, DigitsBeforePlace, Muen)
        p3 == RePlace(s, p4, DigitsBeforePlace, Phan)
        p2 == RePlace(s, p3, DigitsBeforeSip, Sip)
        p1 == RePlace(s, p2, DigitsBeforePlace, Roi)
    IN  p1 \cup ReAlt(s, p1, DigitsUnits)

\* Mutant of ReGroup: the ten slot parenthesised as (|d1|...)(ten)?, which
\* lets its digit stand without the ten word.
ReGroup_TenSlotSplit(s, P) ==
    LET p5 == RePlace(s, P, DigitsBeforePlace, Saen)
        p4 == RePlace(s, p5, DigitsBeforePlace, Muen)
        p3 == RePlace(s, p4, DigitsBeforePlace, Phan)
        p2 == RePlace(s, p3, DigitsBeforePlace, Roi)
        q  == ReAlt(s, p2, DigitsBeforeSip)
        p1 == q \cup ReAlt(s, q, {Sip})
    IN  p1 \cup ReAlt(s, p1, DigitsUnits)

\* one group: lines 13-18 without the million word, and lines 19-24
ReGroup(s, P) ==
    LET p5 == RePlace(s, P, DigitsBeforePlace, Saen)
        p4 == RePlace(s, p5, DigitsBeforePlace, Muen)
        p3 == RePlace(s, p4, DigitsBeforePlace, Phan)
        p2 == RePlace(s, p3, DigitsBeforePlace, Roi)
        p1 == RePlace(s, p2, DigitsBeforeSip, Sip)
    IN  p1 \cup ReAlt(s, p1, DigitsUnits)

\* (group million)* : the least set closed under one more million-group
RECURSIVE ReMillions(_, _)
ReMillions(s, P) ==
    LET Q == P \cup ReAlt(s, ReGroup(s, P), {Lan})
    IN  IF Q = P THEN P ELSE ReMillions(s, Q)

\* _re_thai_numerals.fullmatch(word) is not None
fullmatch(s) == (Len(s) + 1) \in ReGroup(s, ReMillions(s, {1}))

(***************************************************************************)
(* _tokenizer.word_tokenize: dictionary segmentation over _valid_tokens,   *)
(* longest match first.  A character no dictionary word starts at is       *)
(* emitted on its own.                                                     *)
(***************************************************************************)
Longest(ws) == CHOOSE w \in ws : \A v \in ws : Len(v) <= Len(w)

RECURSIVE TokenizeFrom(_, _)
TokenizeFrom(s, p) ==
    IF p > Len(s) THEN <<>>
    ELSE LET ms == { w \in _valid_tokens : StartsWith(s, p, w) }
         IN  IF ms = {} THEN << <<s[p]>> >> \o TokenizeFrom(s, p + 1)
             ELSE << Longest(ms) >> \o TokenizeFrom(s, p + Len(Longest(ms)))

word_tokenize(s) == TokenizeFrom(s, 1)

(***************************************************************************)
(* Python int arithmetic on limbs.                                         *)
(***************************************************************************)
Million == 1000000

\* a + k for a small k (0 <= k < Million)
RECURSIVE IntAdd(_, _)
IntAdd(a, k) ==
    IF k = 0 THEN a
    ELSE IF a = <<>> THEN <<k>>
    ELSE LET t == a[1] + k
         IN  <<t % Million>> \o IntAdd(Tail(a), t \div Million)

\* a * 1000000
IntTimesMillion(a) == IF a = <<>> THEN <<>> ELSE <<0>> \o a

\* a <= b
RECURSIVE IntLeq(_, _)
IntLeq(a, b) ==
    IF Len(a) # Len(b) THEN Len(a) < Len(b)
    ELSE IF a = <<>> THEN TRUE
    ELSE IF a[Len(a)] # b[Len(b)] THEN a[Len(a)] < b[Len(b)]
    ELSE IntLeq(SubSeq(a, 1, Len(a) - 1), SubSeq(b, 1, Len(b) - 1))

(***************************************************************************)
(* The scan of lines 101-117 on a token list.                              *)
(***************************************************************************)
Max(a, b) == IF a >= b THEN a ELSE b

\* lines 101-102
ScanInit == [accumulated |-> <<>>, next_digit |-> 1]

\* Mutant of ScanStep: line 109 without max.
ScanStep_NoMax(st, token) ==
    IF token \in DigitWords
    THEN [st EXCEPT !.next_digit = _digits(token)]
    ELSE IF token \in PowerWords
    THEN [accumulated |->
              IntAdd(st.accumulated, st.next_digit * _powers_of_10(token)),
          next_digit |-> 0]
    ELSE [accumulated |->
              IntTimesMillion(IntAdd(st.accumulated, st.next_digit)),
          next_digit |-> 0]

\* Mutant of ScanStep: line 110 resets next_digit to its default 1.
ScanStep_ResetToOne(st, token) ==
    IF token \in DigitWords
    THEN [st EXCEPT !.next_digit = _digits(token)]
    ELSE IF token \in PowerWords
    THEN [accumulated |->
              IntAdd(st.accumulated, Max(st.next_digit, 1) * _powers_of_10(token)),
          next_digit |-> 1]
    ELSE [accumulated |->
              IntTimesMillion(IntAdd(st.accumulated, st.next_digit)),
          next_digit |-> 0]

\* lines 105-114: the body of the loop for one token
ScanStep(st, token) ==
    IF token \in DigitWords
    THEN [st EXCEPT !.next_digit = _digits(token)]
    ELSE IF token \in PowerWords
    THEN [accumulated |->
              IntAdd(st.accumulated, Max(st.next_digit, 1) * _powers_of_10(token)),
          next_digit |-> 0]
    ELSE [accumulated |->
              IntTimesMillion(IntAdd(st.accumulated, st.next_digit)),
          next_digit |-> 0]

\* line 117
ScanEnd(st) == IntAdd(st.accumulated, st.next_digit)

\* thaiword_to_num on a token list already accepted: lines 101-119
RECURSIVE ScanFrom(_, _, _)
ScanFrom(st, ts, k) ==
    IF k > Len(ts) THEN ScanEnd(st) ELSE ScanFrom(ScanStep(st, ts[k]), ts, k + 1)

(***************************************************************************)
(* Values and outcomes of a call.                                          *)
(***************************************************************************)
PyStr(s) == [isStr |-> TRUE, chars |-> s]
\* an argument that is not a str (None, 12, a list)
NotAStr == [isStr |-> FALSE, chars |-> <<>>]
\* the argument slot of a call that was never made
NoArg == [isStr |-> FALSE, chars |-> <<0>>]

NoOutcome == [kind |-> "none", value |-> <<>>]
Returned(v) == [kind |-> "int", value |-> v]
TypeError == [kind |-> "TypeError", value |-> <<>>]
ValueError == [kind |-> "ValueError", value |-> <<>>]

\* thaiword_to_num as a function of its argument: lines 91-119
thaiword_to_num(w) ==
    IF ~w.isStr THEN TypeError
    ELSE IF w.chars = <<>> THEN ValueError
    ELSE IF w.chars = ZeroWord THEN Returned(<<>>)
    ELSE IF ~fullmatch(w.chars) THEN ValueError
    ELSE Returned(ScanFrom(ScanInit, word_tokenize(w.chars), 1))

(***************************************************************************)
(* Bounds of the model.                                                    *)
(***************************************************************************)
\* calls that may be in progress at once
NumCalls == 2
\* longest input enumerated over every word of the vocabulary, in words
MaxLen == 2
\* longest input enumerated over the representative words, in words
MaxRepLen == 3
\* base-1,000,000 digits of a generated number
MaxGroups == 3
\* largest number of the dense range of generated numbers
MaxSmall == 12000
\* largest group of the dense range of generated multi-group numbers
MaxLimb == 9

Calls == 1..NumCalls

(***************************************************************************)
(* State: one frame per call.                                              *)
(***************************************************************************)
VARIABLES
    word,         \* the argument of the call
    pc,           \* the line the call is at
    tokens,       \* line 100; <<>> while unbound
    i,            \* tokens the for loop of line 104 has consumed
    accumulated,  \* line 101; <<>> while unbound
    next_digit,   \* line 102; 0 while unbound
    outcome,      \* what the call returned or raised
    n             \* the number the argument was generated from, if any

vars == <<word, pc, tokens, i, accumulated, next_digit, outcome, n>>

NoNumber == [given |-> FALSE, value |-> <<>>]
Number(v) == [given |-> TRUE, value |-> v]

\* line 91-92
CheckType(c) ==
    /\ pc[c] = "check_type"
    /\ IF ~word[c].isStr
       THEN /\ pc' = [pc EXCEPT ![c] = "raised"]
            /\ outcome' = [outcome EXCEPT ![c] = TypeError]
       ELSE /\ pc' = [pc EXCEPT ![c] = "check_empty"]
            /\ UNCHANGED outcome
    /\ UNCHANGED <<word, tokens, i, accumulated, next_digit, n>>

\* line 93-94
CheckEmpty(c) ==
    /\ pc[c] = "check_empty"
    /\ IF word[c].chars = <<>>
       THEN /\ pc' = [pc EXCEPT ![c] = "raised"]
            /\ outcome' = [outcome EXCEPT ![c] = ValueError]
       ELSE /\ pc' = [pc EXCEPT ![c] = "check_zero"]
            /\ UNCHANGED outcome
    /\ UNCHANGED <<word, tokens, i, accumulated, next_digit, n>>

\* Mutant of CheckZero: the special case of lines 95-96 left out.
CheckZero_Missing(c) ==
    /\ pc[c] = "check_zero"
    /\ pc' = [pc EXCEPT ![c] = "check_grammar"]
    /\ UNCHANGED <<word, tokens, i, accumulated, next_digit, outcome, n>>

\* line 95-96
CheckZero(c) ==
    /\ pc[c] = "check_zero"
    /\ IF word[c].chars = ZeroWord
       THEN /\ pc' = [pc EXCEPT ![c] = "returned"]
            /\ outcome' = [outcome EXCEPT ![c] = Returned(<<>>)]
       ELSE /\ pc' = [pc EXCEPT ![c] = "check_grammar"]
            /\ UNCHANGED outcome
    /\ UNCHANGED <<word, tokens, i, accumulated, next_digit, n>>

\* re.match in place of re.fullmatch: a prefix (here even the empty one) is
\* enough.
match(s) == ReGroup(s, ReMillions(s, {1})) # {}

\* Mutant of CheckGrammar: line 97 with match.
CheckGrammar_PrefixMatch(c) ==
    /\ pc[c] = "check_grammar"
    /\ IF ~match(word[c].chars)
       THEN /\ pc' = [pc EXCEPT ![c] = "raised"]
            /\ outcome' = [outcome EXCEPT ![c] = ValueError]
       ELSE /\ pc' = [pc EXCEPT ![c] = "tokenize"]
            /\ UNCHANGED outcome
    /\ UNCHANGED <<word, tokens, i, accumulated, next_digit, n>>

\* line 97-98
CheckGrammar(c) ==
    /\ pc[c] = "check_grammar"
    /\ IF ~fullmatch(word[c].chars)
       THEN /\ pc' = [pc EXCEPT ![c] = "raised"]
            /\ outcome' = [outcome EXCEPT ![c] = ValueError]
       ELSE /\ pc' = [pc EXCEPT ![c] = "tokenize"]
            /\ UNCHANGED outcome
    /\ UNCHANGED <<word, tokens, i, accumulated, next_digit, n>>

\* lines 100-102
Tokenize(c) ==
    /\ pc[c] = "tokenize"
    /\ tokens' = [tokens EXCEPT ![c] = word_tokenize(word[c].chars)]
    /\ accumulated' = [accumulated EXCEPT ![c] = ScanInit.accumulated]
    /\ next_digit' = [next_digit EXCEPT ![c] = ScanInit.next_digit]
    /\ pc' = [pc EXCEPT ![c] = "loop"]
    /\ UNCHANGED <<word, i, outcome, n>>

\* Mutant of LoopStep: accumulated and next_digit kept at module level, one
\* pair for all calls.
LoopStep_SharedState(c) ==
    /\ pc[c] = "loop"
    /\ i[c] < Len(tokens[c])
    /\ LET st == ScanStep([accumulated |-> accumulated[c],
                           next_digit |-> next_digit[c]], tokens[c][i[c] + 1])
       IN  /\ accumulated' = [k \in Calls |-> st.accumulated]
           /\ next_digit' = [k \in Calls |-> st.next_digit]
    /\ i' = [i EXCEPT ![c] = i[c] + 1]
    /\ UNCHANGED <<word, pc, tokens, outcome, n>>

\* lines 104-114: one iteration of the for loop
LoopStep(c) ==
    /\ pc[c] = "loop"
    /\ i[c] < Len(tokens[c])
    /\ LET st == ScanStep([accumulated |-> accumulated[c],
                           next_digit |-> next_digit[c]], tokens[c][i[c] + 1])
       IN  /\ accumulated' = [accumulated EXCEPT ![c] = st.accumulated]
           /\ next_digit' = [next_digit EXCEPT ![c] = st.next_digit]
    /\ i' = [i EXCEPT ![c] = i[c] + 1]
    /\ UNCHANGED <<word, pc, tokens, outcome, n>>

\* lines 116-119, once the loop is exhausted
Return(c) ==
    /\ pc[c] = "loop"
    /\ i[c] = Len(tokens[c])
    /\ LET r == ScanEnd([accumulated |-> accumulated[c],
                         next_digit |-> next_digit[c]])
       IN  /\ accumulated' = [accumulated EXCEPT ![c] = r]
           /\ outcome' = [outcome EXCEPT ![c] = Returned(r)]
    /\ pc' = [pc EXCEPT ![c] = "returned"]
    /\ UNCHANGED <<word, tokens, i, next_digit, n>>

Next ==
    \E c \in Calls :
        \/ CheckType(c)
        \/ CheckEmpty(c)
        \/ CheckZero(c)
        \/ CheckGrammar(c)
        \/ Tokenize(c)
        \/ LoopStep(c)
        \/ Return(c)

\* The frames before any line has run: call c has argument args[c].
Entered(args, nums) ==
    /\ word = args
    /\ n = nums
    /\ pc = [c \in Calls |-> IF args[c] = NoArg THEN "idle" ELSE "check_type"]
    /\ tokens = [c \in Calls |-> <<>>]
    /\ i = [c \in Calls |-> 0]
    /\ accumulated = [c \in Calls |-> <<>>]
    /\ next_digit = [c \in Calls |-> 0]
    /\ outcome = [c \in Calls |-> NoOutcome]

(***************************************************************************)
(* Inputs.                                                                 *)
(***************************************************************************)
RECURSIVE Cat(_)
Cat(ws) == IF ws = <<>> THEN <<>> ELSE Head(ws) \o Cat(Tail(ws))

\* text outside the vocabulary: "x", and "ส", the first letter of four words
Foreign == {<<120>>, <<3626>>}

RawSymbols == _valid_tokens \cup {ZeroWord} \cup Foreign

\* one word of each kind the pattern tells apart: the two forms of one and
\* of two, two plain digits, every place word, the million word, a foreign
\* letter
RepSymbols ==
    {Nueng, Et, Song, Yi, Sam, Kao} \cup PowerWords \cup {Lan, <<120>>}

\* every concatenation of at most k symbols of S
RECURSIVE Words(_, _)
Words(S, k) ==
    IF k = 0 THEN {<<>>}
    ELSE LET W == Words(S, k - 1)
         IN  W \cup { w \o x : w \in W, x \in S }

\* the examples of the docstring (lines 64-89) and the largest group
DocWords ==
    { ZeroWord, Nueng, Cat(<<Sip, Et>>), Cat(<<Kao, Sip, Et>>),
      Cat(<<Hok, Roi, Nueng>>), Cat(<<Song, Phan>>), Cat(<<Song, Muen>>),
      Cat(<<Song, Saen>>), Cat(<<Song, Lan>>),
      Cat(<<Song, Lan, Sam, Saen, Hok, Roi, Sip, Song>>),
      Cat(<<Nueng, Roi, Lan>>), Cat(<<Sip, Ha, Lan, Lan>>),
      Cat(<<Kao, Saen, Kao, Muen, Kao, Phan, Kao, Roi, Kao, Sip, Kao>>) }

Inputs ==
    {NotAStr} \cup
    { PyStr(w) : w \in Words(RawSymbols, MaxLen) \cup Words(RepSymbols, MaxRepLen)
                       \cup DocWords }

\* one call, on any input
Init ==
    \E w \in Inputs :
        Entered([c \in Calls |-> IF c = 1 THEN w ELSE NoArg],
                [c \in Calls |-> NoNumber])

Spec == Init /\ [][Next]_vars

(***************************************************************************)
(* The reference composition of a numeral from a number (the generator of  *)
(* the round trip): the number in base 1,000,000, most significant group   *)
(* first, one million word after every group but the last.                 *)
(***************************************************************************)
RECURSIVE Pow10(_)
Pow10(e) == IF e = 0 THEN 1 ELSE 10 * Pow10(e - 1)

DecimalDigit(g, k) == (g \div Pow10(k)) % 10

DigitWord(d) ==
    CASE d = 1 -> Nueng [] d = 2 -> Song [] d = 3 -> Sam [] d = 4 -> Si
      [] d = 5 -> Ha [] d = 6 -> Hok [] d = 7 -> Chet [] d = 8 -> Paet
      [] d = 9 -> Kao

PlaceText(g, k, place) ==
    IF DecimalDigit(g, k) = 0 THEN <<>>
    ELSE DigitWord(DecimalDigit(g, k)) \o place

TensText(g) ==
    CASE DecimalDigit(g, 1) = 0 -> <<>>
      [] DecimalDigit(g, 1) = 1 -> Sip
      [] DecimalDigit(g, 1) = 2 -> Yi \o Sip
      [] OTHER -> DigitWord(DecimalDigit(g, 1)) \o Sip

UnitsText(g, et) ==
    CASE DecimalDigit(g, 0) = 0 -> <<>>
      [] DecimalDigit(g, 0) = 1 -> IF et THEN Et ELSE Nueng
      [] OTHER -> DigitWord(DecimalDigit(g, 0))

GroupText(g, et) ==
    PlaceText(g, 5, Saen) \o PlaceText(g, 4, Muen) \o PlaceText(g, 3, Phan)
        \o PlaceText(g, 2, Roi) \o TensText(g) \o UnitsText(g, et)

RECURSIVE GenerateFrom(_, _, _)
GenerateFrom(m, k, et) ==
    IF k = 1 THEN GroupText(m[1], et[1])
    ELSE GroupText(m[k], et[k]) \o Lan \o GenerateFrom(m, k - 1, et)

\* et[k]: whether a units digit 1 of group k is written with the alternate word
generate(m, et) == IF m = <<>> THEN ZeroWord ELSE GenerateFrom(m, Len(m), et)

\* the limbs of a small number (below 2^31)
RECURSIVE ToLimbs(_)
ToLimbs(v) == IF v = 0 THEN <<>> ELSE <<v % Million>> \o ToLimbs(v \div Million)

RECURSIVE Normal(_)
Normal(a) ==
    IF a = <<>> \/ a[Len(a)] # 0 THEN a ELSE Normal(SubSeq(a, 1, Len(a) - 1))

\* d * 10^p
SingleDigit(d, p) ==
    Normal([j \in 1..MaxGroups |-> IF p \div 6 = j - 1 THEN d * Pow10(p % 6) ELSE 0])

\* the numbers of the docstring, 999,999, 10^18 - 1, and one with 1 and 2 in
\* every tens and units place
DocNumbers ==
    { <<>>, <<1>>, <<11>>, <<91>>, <<601>>, <<2000>>, <<20000>>, <<200000>>,
      <<0, 2>>, <<300612, 2>>, <<0, 100>>, <<0, 0, 15>>, <<999999>>,
      <<999999, 999999, 999999>>, <<121, 111, 21>> }

RoundTripNumbers ==
    \* every number up to MaxSmall
    { ToLimbs(v) : v \in 0..MaxSmall }
    \* every number of at most MaxGroups groups, each at most MaxLimb
    \cup { Normal(m) : m \in [1..MaxGroups -> 0..MaxLimb] }
    \* every digit at every decimal position of MaxGroups groups
    \cup { SingleDigit(d, p) : d \in 1..9, p \in 0..(6 * MaxGroups - 1) }
    \cup DocNumbers

\* which groups write a units digit 1 with the alternate word: none, all,
\* the even ones, the odd ones
EtChoices ==
    { [k \in 1..(MaxGroups + 1) |-> FALSE], [k \in 1..(MaxGroups + 1) |-> TRUE],
      [k \in 1..(MaxGroups + 1) |-> k % 2 = 0],
      [k \in 1..(MaxGroups + 1) |-> k % 2 = 1] }

\* one call, on the numeral generated from a number
InitRT ==
    \E m \in RoundTripNumbers, et \in EtChoices :
        Entered([c \in Calls |-> IF c = 1 THEN PyStr(generate(m, et)) ELSE NoArg],
                [c \in Calls |-> IF c = 1 THEN Number(m) ELSE NoNumber])

SpecRT == InitRT /\ [][Next]_vars

\* every call in progress at once, their lines interleaved in any order
ConcInputs ==
    { NotAStr, PyStr(<<>>), PyStr(ZeroWord), PyStr(Cat(<<Et, Sip>>)),
      PyStr(Cat(<<Sip, Et>>)), PyStr(Cat(<<Song, Lan, Sam, Saen>>)) }

InitConc ==
    \E args \in [Calls -> ConcInputs] :
        Entered(args, [c \in Calls |-> NoNumber])

SpecConc == InitConc /\ [][Next]_vars

(***************************************************************************)
(* C1.  Round trip: the call on generate(m) returns m, for the zero word   *)
(* and for every numeral composed group by group, whichever word is used   *)
(* for a units digit 1.                                                    *)
(***************************************************************************)
C1_RoundTrip ==
    \A c \in Calls :
        n[c].given =>
            /\ pc[c] # "raised"
            /\ pc[c] = "returned" => outcome[c] = Returned(n[c].value)

\* the docstring's 15,000,000,000,000 has been generated and parsed back
C1_Witness ==
    /\ n[1] = Number(<<0, 0, 15>>)
    /\ word[1] = PyStr(Cat(<<Sip, Ha, Lan, Lan>>))
    /\ pc[1] = "returned"
    /\ outcome[1] = Returned(<<0, 0, 15>>)

(***************************************************************************)
(* Vocabulary of the claims about a call c.                                *)
(***************************************************************************)
Terminal(c) == pc[c] \in {"returned", "raised"}

\* the call got past the grammar check of line 97
Accepted(c) ==
    \/ pc[c] \in {"tokenize", "loop"}
    \/ pc[c] = "returned" /\ word[c].chars # ZeroWord

\* the words of the argument, whether or not it is a numeral
Toks(c) == word_tokenize(word[c].chars)

\* no line of 100-117 has run in the frame
ScanNeverRan(c) ==
    /\ tokens[c] = <<>>
    /\ i[c] = 0
    /\ accumulated[c] = <<>>
    /\ next_digit[c] = 0

\* the next token of the loop, when there is one
AtToken(c) == pc[c] = "loop" /\ i[c] < Len(tokens[c])
Token(c) == tokens[c][i[c] + 1]

\* the place words between two million words descend strictly
PlacesDescend(ts) ==
    \A a, b \in 1..Len(ts) :
        ( /\ a < b
          /\ ts[a] \in PowerWords
          /\ ts[b] \in PowerWords
          /\ \A k \in a..b : ts[k] # Lan )
        => _powers_of_10(ts[a]) > _powers_of_10(ts[b])

(***************************************************************************)
(* C2.  In every accepted token sequence the place words of one group      *)
(* (between two million words, before the first, after the last) descend   *)
(* strictly in magnitude, so none occurs twice in a group; a call whose     *)
(* argument has a repeated or out-of-order place word in a group raises    *)
(* ValueError.                                                             *)
(***************************************************************************)
C2_PlacesDescend ==
    \A c \in Calls :
        /\ Accepted(c) => PlacesDescend(Toks(c))
        /\ pc[c] = "loop" => tokens[c] = Toks(c)
        /\ (Terminal(c) /\ word[c].isStr /\ ~PlacesDescend(Toks(c)))
               => outcome[c] = ValueError

\* "ร้อยสองร้อย", the hundred word twice in one group, has been rejected
C2_Witness ==
    /\ word[1] = PyStr(Cat(<<Roi, Song, Roi>>))
    /\ ~PlacesDescend(Toks(1))
    /\ pc[1] = "raised"
    /\ outcome[1] = ValueError

(***************************************************************************)
(* C3.  The argument that is exactly the zero word returns 0 straight from *)
(* line 96: no grammar match, tokenization or accumulation is done for it. *)
(* An argument that holds the zero word next to anything else raises       *)
(* ValueError.                                                             *)
(***************************************************************************)
Contains(s, w) == \E p \in 1..Len(s) : StartsWith(s, p, w)

C3_ZeroWord ==
    \A c \in Calls :
        word[c].isStr =>
            /\ word[c].chars = ZeroWord =>
                   /\ pc[c] \in {"check_type", "check_empty", "check_zero", "returned"}
                   /\ ScanNeverRan(c)
                   /\ pc[c] = "returned" => outcome[c] = Returned(<<>>)
            /\ ( /\ Terminal(c)
                 /\ Contains(word[c].chars, ZeroWord)
                 /\ word[c].chars # ZeroWord )
                   => outcome[c] = ValueError

\* the zero word has returned 0
C3_Witness ==
    /\ word[1] = PyStr(ZeroWord)
    /\ pc[1] = "returned"
    /\ outcome[1] = Returned(<<>>)
    /\ ScanNeverRan(1)

(***************************************************************************)
(* C4.  A call ends with an integer, a TypeError or a ValueError and with  *)
(* nothing else; until then it always has a next line to run.  A non-str   *)
(* argument gives TypeError, the empty string ValueError, a non-empty      *)
(* string that is neither the zero word nor a full match ValueError; a      *)
(* call that raised never ran the tokenizer or the scan and returned no    *)
(* integer.                                                                *)
(***************************************************************************)
\* the guard of one of the actions holds for call c
HasNextLine(c) ==
    \/ pc[c] \in {"check_type", "check_empty", "check_zero", "check_grammar",
                  "tokenize"}
    \/ pc[c] = "loop" /\ i[c] <= Len(tokens[c])

C4_Outcomes ==
    \A c \in Calls :
        pc[c] # "idle" =>
            /\ outcome[c].kind \in {"none", "int", "TypeError", "ValueError"}
            /\ (outcome[c] = NoOutcome) <=> ~Terminal(c)
            /\ ~Terminal(c) => HasNextLine(c)
            /\ (outcome[c].kind = "int") <=> (pc[c] = "returned")
            /\ pc[c] = "raised" =>
                   /\ outcome[c] \in {TypeError, ValueError}
                   /\ ScanNeverRan(c)
            /\ Terminal(c) =>
                   /\ ~word[c].isStr => outcome[c] = TypeError
                   /\ word[c] = PyStr(<<>>) => outcome[c] = ValueError
                   /\ ( /\ word[c].isStr
                        /\ word[c].chars # <<>>
                        /\ word[c].chars # ZeroWord
                        /\ ~fullmatch(word[c].chars) ) => outcome[c] = ValueError

\* a numeral followed by a stray letter was rejected before the tokenizer ran
C4_Witness ==
    /\ word[1] = PyStr(Cat(<<Song, Roi, <<120>> >>))
    /\ pc[1] = "raised"
    /\ outcome[1] = ValueError
    /\ ScanNeverRan(1)

(***************************************************************************)
(* C5.  With the lines of several calls interleaved in any order, the scan *)
(* of each call starts from (0, 1), holds at every point exactly what its  *)
(* own steps made of its own argument, and the call ends as it does when   *)
(* run alone.                                                              *)
(***************************************************************************)
RECURSIVE ScanPrefix(_, _)
ScanPrefix(ts, k) ==
    IF k = 0 THEN ScanInit ELSE ScanStep(ScanPrefix(ts, k - 1), ts[k])

C5_Independent ==
    \A c \in Calls :
        /\ (pc[c] = "loop" /\ i[c] = 0) =>
               accumulated[c] = <<>> /\ next_digit[c] = 1
        /\ pc[c] = "loop" =>
               /\ tokens[c] = Toks(c)
               /\ ScanPrefix(Toks(c), i[c]) =
                      [accumulated |-> accumulated[c], next_digit |-> next_digit[c]]
        /\ pc[c] \notin {"loop", "returned"} => ScanNeverRan(c)
        /\ Terminal(c) => outcome[c] = thaiword_to_num(word[c])

\* two calls are both in the middle of their scans, on different arguments
C5_Witness ==
    /\ word[1] = PyStr(Cat(<<Song, Lan, Sam, Saen>>))
    /\ word[2] = PyStr(Cat(<<Sip, Et>>))
    /\ pc[1] = "loop" /\ i[1] = 2
    /\ pc[2] = "loop" /\ i[2] = 1

(***************************************************************************)
(* C6.  When the loop is at a place word (ten ... hundred thousand),       *)
(* next_digit is the initial 1 or the value 1..9 of the digit word just    *)
(* before it, never 0, so max(next_digit, 1) is next_digit.                *)
(***************************************************************************)
C6_PendingNeverZero ==
    \A c \in Calls :
        (AtToken(c) /\ Token(c) \in PowerWords) =>
            /\ \/ i[c] = 0 /\ next_digit[c] = 1
               \/ /\ i[c] > 0
                  /\ tokens[c][i[c]] \in DigitWords
                  /\ next_digit[c] = _digits(tokens[c][i[c]])
            /\ next_digit[c] # 0
            /\ Max(next_digit[c], 1) = next_digit[c]

(* C6 as the code has it: at a place word next_digit is the initial 1      *)
(* (first token), the value 1..9 of the digit word just before it, or the  *)
(* 0 left by a place word or million word just before it; max changes the  *)
(* coefficient exactly in the last case, from 0 to 1.                      *)
C6_PendingAtPlace ==
    \A c \in Calls :
        (AtToken(c) /\ Token(c) \in PowerWords) =>
            /\ \/ i[c] = 0 /\ next_digit[c] = 1
               \/ /\ i[c] > 0
                  /\ tokens[c][i[c]] \in DigitWords
                  /\ next_digit[c] = _digits(tokens[c][i[c]])
                  /\ next_digit[c] \in 1..9
               \/ /\ i[c] > 0
                  /\ tokens[c][i[c]] \in PowerWords \cup {Lan}
                  /\ next_digit[c] = 0
            /\ (Max(next_digit[c], 1) # next_digit[c]) <=>
                   (i[c] > 0 /\ tokens[c][i[c]] \notin DigitWords)

\* the loop is at the ten word of "ร้อยสิบ" with next_digit 0
C6_Witness ==
    /\ word[1] = PyStr(Cat(<<Roi, Sip>>))
    /\ AtToken(1) /\ Token(1) = Sip
    /\ next_digit[1] = 0
    /\ accumulated[1] = <<100>>

(***************************************************************************)
(* C7.  A step of the loop on a million word that no digit word precedes   *)
(* (another token precedes it, or it is the first token) applies no        *)
(* implicit 1: it multiplies the total by 1,000,000 and leaves next_digit  *)
(* 0.                                                                      *)
(***************************************************************************)
C7_MillionNoImplicitOne ==
    [][ \A c \in Calls :
          ( /\ AtToken(c)
            /\ Token(c) = Lan
            /\ i[c] = 0 \/ tokens[c][i[c]] \notin DigitWords
            /\ i'[c] = i[c] + 1 )
          => /\ accumulated'[c] = IntTimesMillion(accumulated[c])
             /\ next_digit'[c] = 0 ]_vars

(***************************************************************************)
(* C8.  No accepted token sequence has two digit words in a row.  A digit  *)
(* word therefore overwrites only a next_digit of 0, or the initial 1 when *)
(* it is the first token; and next_digit is the value of the digit word    *)
(* just consumed, or 0 once a place or million word has added it, so each  *)
(* digit is added to the total once: by the next place word, the next      *)
(* million word or line 117.                                               *)
(***************************************************************************)
C8_DigitsAddedOnce ==
    \A c \in Calls :
        /\ Accepted(c) =>
               \A k \in 1..(Len(Toks(c)) - 1) :
                   ~(Toks(c)[k] \in DigitWords /\ Toks(c)[k + 1] \in DigitWords)
        /\ (AtToken(c) /\ Token(c) \in DigitWords) =>
               /\ next_digit[c] \in {0, 1}
               /\ next_digit[c] = 1 <=> i[c] = 0
        /\ (pc[c] = "loop" /\ i[c] > 0) =>
               IF tokens[c][i[c]] \in DigitWords
               THEN next_digit[c] = _digits(tokens[c][i[c]])
               ELSE next_digit[c] = 0
        /\ (pc[c] = "returned" /\ word[c].chars # ZeroWord) =>
               outcome[c].value = ScanEnd(ScanPrefix(tokens[c], Len(tokens[c])))

\* the loop is at the digit of "สองร้อยสาม": next_digit is 0 again, the 2
\* already added
C8_Witness ==
    /\ word[1] = PyStr(Cat(<<Song, Roi, Sam>>))
    /\ AtToken(1) /\ Token(1) = Sam
    /\ next_digit[1] = 0
    /\ accumulated[1] = <<200>>

(***************************************************************************)
(* C9.  In every accepted token sequence the alternate one is the last     *)
(* word of its group (the million word or the end follows it, never a      *)
(* place word) and the alternate two stands right before the ten word; a   *)
(* call whose argument has either elsewhere raises ValueError.             *)
(***************************************************************************)
AlternatesInSlot(ts) ==
    \A k \in 1..Len(ts) :
        /\ ts[k] = Et => (k = Len(ts) \/ ts[k + 1] = Lan)
        /\ ts[k] = Yi => (k < Len(ts) /\ ts[k + 1] = Sip)

C9_AlternateWords ==
    \A c \in Calls :
        /\ Accepted(c) => AlternatesInSlot(Toks(c))
        /\ (Terminal(c) /\ word[c].isStr /\ ~AlternatesInSlot(Toks(c)))
               => outcome[c] = ValueError

\* "ยี่สิบเอ็ด" has returned 21
C9_Witness ==
    /\ word[1] = PyStr(Cat(<<Yi, Sip, Et>>))
    /\ tokens[1] = <<Yi, Sip, Et>>
    /\ pc[1] = "returned"
    /\ outcome[1] = Returned(<<21>>)

(***************************************************************************)
(* C10.  During the scan of an accepted input: the total is a well-formed  *)
(* non-negative integer; next_digit is in 0..9; right after a million word *)
(* the total is a multiple of 1,000,000; what the tokens of the current    *)
(* group have added, with the pending digit, is at most 999,999.  A step   *)
(* never decreases the total, and a step that is not on a million word     *)
(* (line 117 included) leaves the part above the lowest base-1,000,000     *)
(* digit as it was: the group never carries.  Every accepted input other   *)
(* than the zero word returns at least 1.                                  *)
(***************************************************************************)
WellFormed(a) ==
    /\ \A k \in 1..Len(a) : a[k] \in 0..(Million - 1)
    /\ a = Normal(a)

Low(a) == IF a = <<>> THEN 0 ELSE a[1]
Upper(a) == IF a = <<>> THEN <<>> ELSE Tail(a)

C10_State ==
    \A c \in Calls :
        /\ WellFormed(accumulated[c])
        /\ next_digit[c] \in 0..9
        /\ (pc[c] = "loop" /\ i[c] > 0 /\ tokens[c][i[c]] = Lan) =>
               /\ Low(accumulated[c]) = 0
               /\ accumulated[c] # <<>>
        /\ pc[c] = "loop" => Low(accumulated[c]) + next_digit[c] <= 999999
        /\ (pc[c] = "returned" /\ word[c].chars # ZeroWord) =>
               /\ outcome[c].value # <<>>
               /\ IntLeq(<<1>>, outcome[c].value)
               /\ Low(outcome[c].value) <= 999999

C10_Step ==
    \A c \in Calls :
        /\ IntLeq(accumulated[c], accumulated'[c])
        /\ (pc[c] = "loop" /\ ~(AtToken(c) /\ Token(c) = Lan)) =>
               Upper(accumulated'[c]) = Upper(accumulated[c])

=============================================================================
